---- MODULE Spec2Model ----
(***************************************************************************)
(* Model of the storey splitter, split_ifc_by_storey.py:                   *)
(*   build_relationship_maps, collect_dependencies, split_ifc_ultrafast,   *)
(*   main.                                                                 *)
(* The input (an IFC store) is drawn in Init from bounded families; the    *)
(* run is one action per step of split_ifc_ultrafast, with the recursion   *)
(* of collect_dependencies unfolded on an explicit call stack.             *)
(***************************************************************************)
EXTENDS Integers, Sequences, FiniteSets, TLC

\* ----------------------------------------------------------------- bounds
MaxStoreys == 2
MaxElements == 2
MaxGeom == 2

\* ------------------------------------------------------------ generalities
RECURSIVE SortedSeq(_)
\* sorted(S) of a finite set of integers
SortedSeq(S) ==
  IF S = {} THEN <<>>
  ELSE LET m == CHOOSE x \in S : \A y \in S : x <= y
       IN <<m>> \o SortedSeq(S \ {m})

Range(s) == {s[i] : i \in DOMAIN s}

\* d[k] = v on a dict d (a function on its keys)
Put(d, k, v) == [x \in (DOMAIN d) \cup {k} |-> IF x = k THEN v ELSE d[x]]

\* the empty dict
EmptyDict == [x \in {} |-> 0]

\* ------------------------------------------------------------ entity store
\* Entity ids are positive; 0 stands for None.  The id layout of the
\* bounded stores: project, site, building, storeys, elements, one element
\* type, one property set, one material, geometry items.
Kinds ==
  <<"IfcProject", "IfcSite", "IfcBuilding">>
  \o [i \in 1..MaxStoreys |-> "IfcBuildingStorey"]
  \o [i \in 1..MaxElements |-> "IfcWall"]
  \o <<"IfcWallType", "IfcPropertySet", "IfcMaterial">>
  \o [i \in 1..MaxGeom |-> "IfcShapeRepresentation"]

AllIds == 1..Len(Kinds)
IdsOfKind(k) == {i \in AllIds : Kinds[i] = k}
KindSeq(k) == SortedSeq(IdsOfKind(k))

\* an id no store holds: a reference to it dangles
AbsentId == Len(Kinds) + 1

\* the entity types that are not subtypes of IfcRoot
NonRootTypes == {"IfcMaterial", "IfcShapeRepresentation"}

\* attribute values: None, a reference, a list of values (lists may nest)
NoneV == [k |-> "none", id |-> 0, items |-> <<>>]
Ref(i) == [k |-> "ref", id |-> i, items |-> <<>>]
List(s) == [k |-> "list", id |-> 0, items |-> s]

\* A store is a record: kind and attrs of every entity, the storeys' names,
\* the relationship records by type in store order, and raises: whether
\* the loader raises when an unresolvable reference is examined (TRUE) or
\* presents it as a value without an id (FALSE).

\* a relationship record; relating = 0 or hasRelated = FALSE: the attribute
\* is absent (None)
Rel(relating, related) ==
  [relating |-> relating, related |-> related, hasRelated |-> TRUE]

\* --------------------------------------------------------- bounded inputs
ProjectId == KindSeq("IfcProject")[1]
SiteId == KindSeq("IfcSite")[1]
BuildingId == KindSeq("IfcBuilding")[1]
StoreyIds == KindSeq("IfcBuildingStorey")
ElementIds == KindSeq("IfcWall")
TypeId == KindSeq("IfcWallType")[1]
PsetId == KindSeq("IfcPropertySet")[1]
MaterialId == KindSeq("IfcMaterial")[1]
GeomIds == KindSeq("IfcShapeRepresentation")
FirstGeom == GeomIds[1]
LastGeom == GeomIds[Len(GeomIds)]
FirstElement == ElementIds[1]
LastElement == ElementIds[Len(ElementIds)]

\* storey names: sequences of characters; <<>> is an absent (or empty) Name
NameChoices ==
  { <<>>, <<"L", "1">>, <<" ", "L", "/", "1">>, <<"L", " ", "1">> }

\* the ids of a store with nS storeys
IdsWith(nS) ==
  {i \in AllIds : Kinds[i] = "IfcBuildingStorey" => \E k \in 1..nS : StoreyIds[k] = i}

\* one IfcRelContainedInSpatialStructure per storey that has elements;
\* c[j] is the storey (1..nS) element j is contained in, 0 for none
ContainedRels(nS, c) ==
  LET members(k) == {ElementIds[j] : j \in {j \in 1..MaxElements : c[j] = k}}
      used == {k \in 1..nS : members(k) # {}}
      ks == SortedSeq(used)
  IN [n \in 1..Len(ks) |-> Rel(StoreyIds[ks[n]], SortedSeq(members(ks[n])))]

\* one relationship record associating `relating` with the elements of E
AssocRels(relating, E) ==
  IF E = {} THEN <<>> ELSE <<Rel(relating, SortedSeq(E))>>

\* project > site > building > storeys
ChainRels(nS) ==
  << Rel(ProjectId, <<SiteId>>), Rel(SiteId, <<BuildingId>>) >>
  \o (IF nS = 0 THEN <<>> ELSE <<Rel(BuildingId, SubSeq(StoreyIds, 1, nS))>>)

\* element j holds a reference to a geometry item; nothing else refers
BaseAttrs ==
  [i \in AllIds |->
     IF Kinds[i] = "IfcWall"
     THEN LET j == CHOOSE j \in 1..MaxElements : ElementIds[j] = i
          IN <<Ref(GeomIds[IF j <= MaxGeom THEN j ELSE MaxGeom])>>
     ELSE <<>>]

HomeStorey(nS) ==
  [j \in 1..MaxElements |-> IF nS = 0 THEN 0 ELSE ((j - 1) % nS) + 1]

MkStore(nS, c, tE, mE, pE, attrs, names, agg) ==
  [ kind |-> [i \in IdsWith(nS) |-> Kinds[i]],
    attrs |-> [i \in IdsWith(nS) |-> attrs[i]],
    name |-> [k \in 1..nS |-> names[k]],
    relType |-> AssocRels(TypeId, tE),
    relMat |-> AssocRels(MaterialId, mE),
    relPset |-> AssocRels(PsetId, pE),
    relContained |-> ContainedRels(nS, c),
    relAgg |-> agg,
    raises |-> FALSE ]

NoNames == [k \in 1..MaxStoreys |-> <<>>]
AllElements == Range(ElementIds)

BaseStore ==
  MkStore(MaxStoreys, HomeStorey(MaxStoreys), AllElements, AllElements,
          {FirstElement}, BaseAttrs, NoNames, ChainRels(MaxStoreys))

\* containment varies: any number of storeys, every element in any storey
ContStores ==
  { MkStore(nS, c, AllElements, AllElements, {FirstElement}, BaseAttrs, NoNames,
            ChainRels(nS)) :
      <<nS, c>> \in { <<n, f>> \in (0..MaxStoreys) \X [1..MaxElements -> 0..MaxStoreys] :
                        \A j \in 1..MaxElements : f[j] <= n } }

\* type, material and property set associations vary (here and in the
\* families below no aggregation relates project, site and building)
AssocChoices == { {}, {FirstElement}, AllElements }
AssocStores ==
  { MkStore(MaxStoreys, HomeStorey(MaxStoreys), tE, mE, pE, BaseAttrs, NoNames, <<>>) :
      <<tE, mE, pE>> \in AssocChoices \X AssocChoices \X AssocChoices }

\* storey names vary
NameStores ==
  { MkStore(MaxStoreys, HomeStorey(MaxStoreys), AllElements, AllElements,
            {FirstElement}, BaseAttrs, names, <<>>) :
      names \in [1..MaxStoreys -> NameChoices] }

\* the reference graph varies: the first element's two attributes, the
\* links between geometry items, the material's attribute
ElemVals ==
  { NoneV, Ref(AbsentId), Ref(FirstGeom), Ref(LastElement),
    List(<<Ref(FirstGeom), Ref(LastGeom)>>),
    List(<<Ref(AbsentId), Ref(LastGeom)>>),
    List(<<List(<<Ref(LastGeom)>>)>>) }

GeomLinks == {"none", "chain", "cycle", "self", "root"}

GeomAttrs(link, n) ==
  CASE link = "none" -> <<>>
    [] link = "chain" -> IF n < MaxGeom THEN <<Ref(GeomIds[n + 1])>> ELSE <<>>
    [] link = "cycle" -> <<Ref(GeomIds[(n % MaxGeom) + 1])>>
    [] link = "self" -> <<Ref(GeomIds[n])>>
    [] link = "root" -> IF n = 1 THEN <<Ref(LastElement)>> ELSE <<>>

GraphAttrs(a, b, link, m) ==
  [i \in AllIds |->
     IF i = FirstElement THEN <<a, b>>
     ELSE IF Kinds[i] = "IfcShapeRepresentation"
     THEN GeomAttrs(link, CHOOSE n \in 1..MaxGeom : GeomIds[n] = i)
     ELSE IF i = MaterialId THEN m
     ELSE BaseAttrs[i]]

RECURSIVE HoldsDangling(_, _)
\* some attribute value, at any depth, refers to an id the store lacks
HoldsDangling(st, vals) ==
  \E n \in DOMAIN vals :
    \/ vals[n].k = "ref" /\ vals[n].id \notin DOMAIN st.kind
    \/ vals[n].k = "list" /\ HoldsDangling(st, vals[n].items)

GraphStores ==
  LET lenient ==
        { MkStore(MaxStoreys, HomeStorey(MaxStoreys), AllElements, AllElements,
                  {FirstElement}, GraphAttrs(a, b, link, m), NoNames, <<>>) :
            <<a, b, link, m>> \in ElemVals \X {Ref(FirstGeom), Ref(LastGeom)}
                                  \X GeomLinks \X {<<>>, <<Ref(LastGeom)>>} }
      strict ==
        { [s EXCEPT !.raises = TRUE] :
            s \in {t \in lenient : HoldsDangling(t, t.attrs[FirstElement])} }
  IN lenient \cup strict

\* relationship records with an absent attribute
IndexStores ==
  { [BaseStore EXCEPT !.relType = <<Rel(0, <<FirstElement>>)>>],
    [BaseStore EXCEPT !.relMat = <<[Rel(MaterialId, <<>>) EXCEPT !.hasRelated = FALSE]>>],
    [BaseStore EXCEPT !.relContained = <<Rel(0, <<FirstElement>>)>> \o @],
    [BaseStore EXCEPT !.relAgg = <<[Rel(ProjectId, <<>>) EXCEPT !.hasRelated = FALSE]>> \o @] }

\* the spatial hierarchy varies: a second site and a second building (held
\* by these stores only), one or two aggregation relations under the
\* project and under the sites, in either order, the storeys under one
\* building or spread over both
OtherSiteId == AbsentId + 1
OtherBuildingId == AbsentId + 2

SiteRelChoices ==
  { <<Rel(ProjectId, <<SiteId>>)>>,
    <<Rel(ProjectId, <<SiteId, OtherSiteId>>)>>,
    <<Rel(ProjectId, <<SiteId>>), Rel(ProjectId, <<OtherSiteId>>)>>,
    <<Rel(ProjectId, <<OtherSiteId>>), Rel(ProjectId, <<SiteId>>)>> }

BuildingRelChoices ==
  { <<Rel(SiteId, <<BuildingId>>)>>,
    <<Rel(SiteId, <<BuildingId, OtherBuildingId>>)>>,
    <<Rel(SiteId, <<BuildingId>>), Rel(SiteId, <<OtherBuildingId>>)>>,
    <<Rel(SiteId, <<BuildingId>>), Rel(OtherSiteId, <<OtherBuildingId>>)>>,
    <<Rel(OtherSiteId, <<OtherBuildingId>>), Rel(SiteId, <<BuildingId>>)>> }

StoreyRelChoices ==
  { <<Rel(BuildingId, StoreyIds)>>,
    <<Rel(BuildingId, SubSeq(StoreyIds, 1, 1)),
      Rel(OtherBuildingId, SubSeq(StoreyIds, 2, MaxStoreys))>> }

HierStore(agg) ==
  LET b == MkStore(MaxStoreys, HomeStorey(MaxStoreys), {}, {}, {}, BaseAttrs,
                   NoNames, agg)
      ids == DOMAIN b.kind \cup {OtherSiteId, OtherBuildingId}
  IN [b EXCEPT !.kind = [i \in ids |-> IF i = OtherSiteId THEN "IfcSite"
                                       ELSE IF i = OtherBuildingId THEN "IfcBuilding"
                                       ELSE b.kind[i]],
               !.attrs = [i \in ids |-> IF i \in DOMAIN b.attrs THEN b.attrs[i]
                                        ELSE <<>>]]

HierStores ==
  { HierStore(sr \o br \o yr) :
      <<sr, br, yr>> \in SiteRelChoices \X BuildingRelChoices \X StoreyRelChoices }

Stores ==
  ContStores \cup AssocStores \cup NameStores \cup GraphStores \cup IndexStores
    \cup HierStores

\* ------------------------------------------------------------- store access
\* ifc_file.by_type(t): the entities of type t, in store order
by_type(st, t) == SortedSeq({i \in DOMAIN st.kind : st.kind[i] = t})

\* value.is_a("IfcRoot")
IsRoot(st, i) == st.kind[i] \notin NonRootTypes

\* the id is in the store: by_id(i) resolves
Present(st, i) == i \in DOMAIN st.kind

\* ------------------------------------------------- build_relationship_maps
RECURSIVE AssignEach(_, _, _)
\* for element in related: d[element.id()] = v
AssignEach(d, related, v) ==
  IF related = <<>> THEN d
  ELSE AssignEach(Put(d, Head(related), v), Tail(related), v)

RECURSIVE AppendEach(_, _, _)
\* for element in related: d[element.id()].append(v)    (defaultdict(list))
AppendEach(d, related, v) ==
  IF related = <<>> THEN d
  ELSE LET e == Head(related)
           old == IF e \in DOMAIN d THEN d[e] ELSE <<>>
       IN AppendEach(Put(d, e, Append(old, v)), Tail(related), v)

\* d[k].update(related)                                  (defaultdict(set))
UpdateSet(d, k, related) ==
  Put(d, k, (IF k \in DOMAIN d THEN d[k] ELSE {}) \cup Range(related))

RECURSIVE ElementToType(_, _)
ElementToType(rels, d) ==
  IF rels = <<>> THEN d
  ELSE ElementToType(Tail(rels), AssignEach(d, Head(rels).related, Head(rels).relating))

RECURSIVE ElementToList(_, _)
ElementToList(rels, d) ==
  IF rels = <<>> THEN d
  ELSE ElementToList(Tail(rels), AppendEach(d, Head(rels).related, Head(rels).relating))

RECURSIVE StoreyToElements(_, _)
StoreyToElements(rels, d) ==
  IF rels = <<>> THEN d
  ELSE StoreyToElements(Tail(rels), UpdateSet(d, Head(rels).relating, Head(rels).related))

\* the IfcRelAggregates whose RelatingObject is a storey
StoreyAggregates(st) ==
  SelectSeq(st.relAgg,
            LAMBDA r : Present(st, r.relating) /\ st.kind[r.relating] = "IfcBuildingStorey")

build_relationship_maps(st) ==
  [ element_to_type |-> ElementToType(st.relType, EmptyDict),
    element_to_materials |-> ElementToList(st.relMat, EmptyDict),
    element_to_psets |-> ElementToList(st.relPset, EmptyDict),
    storey_to_elements |->
      StoreyToElements(StoreyAggregates(st),
                       StoreyToElements(st.relContained, EmptyDict)) ]

\* build_relationship_maps raises: iterating an absent RelatedObjects, or
\* calling .id() / .is_a() on an absent RelatingStructure / RelatingObject
BuildRaises(st) ==
  \/ \E i \in DOMAIN st.relType : ~st.relType[i].hasRelated
  \/ \E i \in DOMAIN st.relMat : ~st.relMat[i].hasRelated
  \/ \E i \in DOMAIN st.relPset : ~st.relPset[i].hasRelated
  \/ \E i \in DOMAIN st.relContained :
       st.relContained[i].relating = 0 \/ ~st.relContained[i].hasRelated
  \/ \E i \in DOMAIN st.relAgg :
       \/ st.relAgg[i].relating = 0
       \/ /\ st.kind[st.relAgg[i].relating] = "IfcBuildingStorey"
          /\ ~st.relAgg[i].hasRelated

\* ------------------------------------------------------- spatial hierarchy
RECURSIVE FirstOfKind(_, _, _)
\* for obj in related: if obj.is_a(kind): <found> ; break
FirstOfKind(st, related, kind) ==
  IF related = <<>> THEN 0
  ELSE IF st.kind[Head(related)] = kind THEN Head(related)
  ELSE FirstOfKind(st, Tail(related), kind)

RECURSIVE ScanAggregates(_, _, _, _, _)
\* for rel in by_type("IfcRelAggregates"): if rel.RelatingObject == parent:
\*    for obj in rel.RelatedObjects: if obj.is_a(kind): found = obj; break
\* (the break leaves the inner loop only)
ScanAggregates(st, rels, parent, kind, found) ==
  IF rels = <<>> THEN found
  ELSE LET r == Head(rels)
           hit == IF r.relating = parent THEN FirstOfKind(st, r.related, kind) ELSE 0
       IN ScanAggregates(st, Tail(rels), parent, kind, IF hit # 0 THEN hit ELSE found)

\* the scan iterates an absent RelatedObjects of a relation of `parent`
ScanRaises(st, parent) ==
  \E i \in DOMAIN st.relAgg :
    st.relAgg[i].relating = parent /\ ~st.relAgg[i].hasRelated

\* ---------------------------------------------------------- output naming
AlnumChars ==
  {"L", "S", "t", "o", "r", "e", "y", "0", "1", "2", "3", "4", "5", "6", "7", "8", "9"}

RECURSIVE Decimal(_)
Decimal(n) ==
  LET d == <<"0", "1", "2", "3", "4", "5", "6", "7", "8", "9">>[(n % 10) + 1]
  IN IF n < 10 THEN <<d>> ELSE Decimal(n \div 10) \o <<d>>

RECURSIVE LStrip(_)
LStrip(s) == IF s # <<>> /\ Head(s) = " " THEN LStrip(Tail(s)) ELSE s

RECURSIVE RStrip(_)
RStrip(s) ==
  IF s # <<>> /\ s[Len(s)] = " " THEN RStrip(SubSeq(s, 1, Len(s) - 1)) ELSE s

\* storey.Name or f"Storey_{idx}"
storey_name(st, idx) ==
  IF st.name[idx + 1] # <<>> THEN st.name[idx + 1]
  ELSE <<"S", "t", "o", "r", "e", "y", "_">> \o Decimal(idx)

\* "".join(c for c in name if c.isalnum() or c in (' ','-','_')).strip().replace(' ','_')
safe_name(name) ==
  LET kept == SelectSeq(name, LAMBDA c : c \in AlnumChars \cup {" ", "-", "_"})
      stripped == RStrip(LStrip(kept))
  IN [i \in DOMAIN stripped |-> IF stripped[i] = " " THEN "_" ELSE stripped[i]]

\* output_dir / f"{base_name}_{safe_name}.ifc": one path per safe name
output_path(st, idx) == safe_name(storey_name(st, idx))

\* ------------------------------------------------------------------- state
VARIABLES
  store,            \* ifc_file: the source store (the input document)
  output_dir_arg,   \* --output-dir: "default" (absent), "existing" or "new"
  pc,               \* position in split_ifc_ultrafast / main
  created,          \* whether the run created the output directory
  maps,             \* the relationship index
  project, site, building,
  storeys,          \* by_type("IfcBuildingStorey")
  idx,              \* enumerate index of the storey being processed
  entities_to_copy, \* explicit roots of the current partition
  seeds,            \* ids the loop over entities_to_copy has not reached
  non_root_deps,    \* the visited set handed to collect_dependencies
  stack,            \* active calls of collect_dependencies
  new_file,         \* ids added to the new file, in insertion order
  files,            \* artifacts in the output location: path -> contents
  parts,            \* one record per storey processed so far
  copy_queue,       \* what the loop over sorted(all_entity_ids) has not reached
  message,          \* the last error or completion line printed
  exit_code         \* status given to sys.exit; -1 while running

vars ==
  << store, output_dir_arg, pc, created, maps, project, site, building, storeys,
     idx, entities_to_copy, seeds, non_root_deps, stack, new_file, copy_queue,
     files, parts, message, exit_code >>

NoMaps ==
  [ element_to_type |-> EmptyDict, element_to_materials |-> EmptyDict,
    element_to_psets |-> EmptyDict, storey_to_elements |-> EmptyDict ]

\* the command lines: every store with an existing output directory, the
\* base store and the storey-less store with each kind of --output-dir
Inputs ==
  (Stores \X {"existing"})
  \cup (({BaseStore} \cup {s \in ContStores : DOMAIN s.name = {}})
        \X {"default", "new"})

Init ==
  /\ \E inp \in Inputs : store = inp[1] /\ output_dir_arg = inp[2]
  /\ pc = "start"
  /\ created = FALSE
  /\ maps = NoMaps
  /\ project = 0 /\ site = 0 /\ building = 0
  /\ storeys = <<>>
  /\ idx = 0
  /\ entities_to_copy = {}
  /\ seeds = {}
  /\ non_root_deps = {}
  /\ stack = <<>>
  /\ new_file = <<>>
  /\ copy_queue = <<>>
  /\ files = EmptyDict
  /\ parts = <<>>
  /\ message = ""
  /\ exit_code = -1

\* return False from split_ifc_ultrafast, or an uncaught exception: both
\* end main with status 1
Exit(code, msg) == pc' = "exit" /\ exit_code' = code /\ message' = msg

\* lines 99-102: the input path does not exist
FileNotFound ==
  /\ pc = "start"
  /\ Exit(1, "File not found")
  /\ UNCHANGED << store, output_dir_arg, created, maps, project, site, building,
                  storeys, idx, entities_to_copy, seeds, non_root_deps, stack,
                  new_file, copy_queue, files, parts >>

\* lines 104-108: output_dir.mkdir(parents=True, exist_ok=True)
MakeOutputDir ==
  /\ pc = "start"
  /\ pc' = "open"
  /\ created' = (output_dir_arg = "new")
  /\ UNCHANGED << store, output_dir_arg, maps, project, site, building, storeys,
                  idx, entities_to_copy, seeds, non_root_deps, stack, new_file,
                  copy_queue, files, parts, message, exit_code >>

\* lines 115-119: ifcopenshell.open raises
OpenFails ==
  /\ pc = "open"
  /\ Exit(1, "Error opening IFC file")
  /\ UNCHANGED << store, output_dir_arg, created, maps, project, site, building,
                  storeys, idx, entities_to_copy, seeds, non_root_deps, stack,
                  new_file, copy_queue, files, parts >>

\* line 125: the index is built
BuildMaps ==
  /\ pc = "open"
  /\ ~BuildRaises(store)
  /\ maps' = build_relationship_maps(store)
  /\ pc' = "core"
  /\ UNCHANGED << store, output_dir_arg, created, project, site, building, storeys,
                  idx, entities_to_copy, seeds, non_root_deps, stack, new_file,
                  copy_queue, files, parts, message, exit_code >>

\* line 125: build_relationship_maps raises; nothing catches it
BuildMapsRaises ==
  /\ pc = "open"
  /\ BuildRaises(store)
  /\ Exit(1, "Traceback")
  /\ UNCHANGED << store, output_dir_arg, created, maps, project, site, building,
                  storeys, idx, entities_to_copy, seeds, non_root_deps, stack,
                  new_file, copy_queue, files, parts >>

\* lines 128-133: no storeys
NoStoreys ==
  /\ pc = "core"
  /\ by_type(store, "IfcBuildingStorey") = <<>>
  /\ Exit(1, "No building storeys found")
  /\ UNCHANGED << store, output_dir_arg, created, maps, project, site, building,
                  storeys, idx, entities_to_copy, seeds, non_root_deps, stack,
                  new_file, copy_queue, files, parts >>

ProjectOf(st) ==
  IF by_type(st, "IfcProject") # <<>> THEN by_type(st, "IfcProject")[1] ELSE 0

SiteOf(st, proj) ==
  IF proj # 0 THEN ScanAggregates(st, st.relAgg, proj, "IfcSite", 0) ELSE 0

BuildingOf(st, s) ==
  IF s # 0 THEN ScanAggregates(st, st.relAgg, s, "IfcBuilding", 0) ELSE 0

HierarchyRaises(st) ==
  \/ ProjectOf(st) # 0 /\ ScanRaises(st, ProjectOf(st))
  \/ /\ ProjectOf(st) # 0 /\ ~ScanRaises(st, ProjectOf(st))
     /\ SiteOf(st, ProjectOf(st)) # 0
     /\ ScanRaises(st, SiteOf(st, ProjectOf(st)))

\* lines 128-159: project, storeys, site, building
ResolveHierarchy ==
  /\ pc = "core"
  /\ by_type(store, "IfcBuildingStorey") # <<>>
  /\ ~HierarchyRaises(store)
  /\ project' = ProjectOf(store)
  /\ storeys' = by_type(store, "IfcBuildingStorey")
  /\ site' = SiteOf(store, project')
  /\ building' = BuildingOf(store, site')
  /\ idx' = 0
  /\ pc' = "storey"
  /\ UNCHANGED << store, output_dir_arg, created, maps, entities_to_copy, seeds,
                  non_root_deps, stack, new_file, copy_queue, files, parts, message, exit_code >>

\* lines 145-159: a relation of the project or site has no RelatedObjects
ResolveHierarchyRaises ==
  /\ pc = "core"
  /\ by_type(store, "IfcBuildingStorey") # <<>>
  /\ HierarchyRaises(store)
  /\ Exit(1, "Traceback")
  /\ UNCHANGED << store, output_dir_arg, created, maps, project, site, building,
                  storeys, idx, entities_to_copy, seeds, non_root_deps, stack,
                  new_file, copy_queue, files, parts >>

\* --------------------------------------------------------------- planning
\* maps['storey_to_elements'].get(storey.id(), set())
Members(m, storey) ==
  IF storey \in DOMAIN m.storey_to_elements THEN m.storey_to_elements[storey] ELSE {}

\* d[k] on a defaultdict(set): an absent key is added with an empty set
AfterSubscript(d, k) == IF k \in DOMAIN d THEN d ELSE Put(d, k, {})

\* line 174: d.get(k, default) leaves the dict as it is
AfterGet(d, k) == d

\* lines 174, 196-208: the index after the lookups of one partition (the
\* element maps are subscripted under an `in` test only, which adds no key)
MapsAfterPlan(m, storey) ==
  [m EXCEPT !.storey_to_elements = AfterGet(@, storey)]

\* lines 183-189: the ancestors found and the storey itself
CoreStructure(proj, s, b, storey) == ({proj, s, b} \ {0}) \cup {storey}

\* lines 196-198
TypeRoots(m, elements) ==
  {m.element_to_type[e] : e \in elements \cap DOMAIN m.element_to_type}

\* lines 201-203
MaterialRoots(m, elements) ==
  UNION {Range(m.element_to_materials[e]) : e \in elements \cap DOMAIN m.element_to_materials}

\* the property-set lookup reads the material index
PsetRootsFromMaterials(m, elements) ==
  UNION {Range(m.element_to_materials[e]) : e \in elements \cap DOMAIN m.element_to_materials}

\* lines 206-208
PsetRoots(m, elements) ==
  UNION {Range(m.element_to_psets[e]) : e \in elements \cap DOMAIN m.element_to_psets}

\* lines 180-208: entities_to_copy
ExplicitRoots(m, proj, s, b, storey) ==
  LET elements == Members(m, storey)
  IN CoreStructure(proj, s, b, storey) \cup elements \cup TypeRoots(m, elements)
     \cup MaterialRoots(m, elements) \cup PsetRoots(m, elements)

\* lines 198, 203, 208: .id() on an absent type, material or property set
PlanRaises(m, storey) ==
  LET elements == Members(m, storey)
  IN 0 \in TypeRoots(m, elements) \cup MaterialRoots(m, elements) \cup PsetRoots(m, elements)

Storey == storeys[idx + 1]

\* the record kept of a processed storey
Part(status, roots, closure, written) ==
  [ container |-> Storey, path |-> output_path(store, idx), status |-> status,
    explicitRoots |-> roots, closure |-> closure, written |-> written ]

\* the next iteration of the loop over storeys
NextStorey ==
  /\ idx' = idx + 1
  /\ pc' = "storey"
  /\ entities_to_copy' = {}
  /\ seeds' = {}
  /\ non_root_deps' = {}
  /\ stack' = <<>>
  /\ new_file' = <<>>
  /\ copy_queue' = <<>>

\* one visited set for the run: what the partitions before visited is kept
SharedVisited == UNION {parts[k].closure : k \in DOMAIN parts}

\* line 215: non_root_deps = set(), a new visited set for every storey
FreshVisited == {}

\* lines 162-215
PlanPartition ==
  /\ pc = "storey"
  /\ idx < Len(storeys)
  /\ ~PlanRaises(maps, Storey)
  /\ entities_to_copy' = ExplicitRoots(maps, project, site, building, Storey)
  /\ seeds' = entities_to_copy'
  /\ non_root_deps' = FreshVisited
  /\ stack' = <<>>
  /\ maps' = MapsAfterPlan(maps, Storey)
  /\ pc' = "closure"
  /\ UNCHANGED << store, output_dir_arg, created, project, site, building,
                  storeys, idx, new_file, copy_queue, files, parts, message, exit_code >>

\* lines 192-208 raise; lines 251-255 catch
PlanPartitionRaises ==
  /\ pc = "storey"
  /\ idx < Len(storeys)
  /\ PlanRaises(maps, Storey)
  /\ parts' = Append(parts, Part("failed", {}, {}, {}))
  /\ maps' = MapsAfterPlan(maps, Storey)
  /\ NextStorey
  /\ UNCHANGED << store, output_dir_arg, created, project, site, building,
                  storeys, files, message, exit_code >>

\* ---------------------------------------------------- collect_dependencies
\* every resolvable reference is followed, root-typed or not
FollowsAnyReference(st, v) == v.k = "ref" /\ Present(st, v.id)

\* hasattr(value, 'id') and not value.is_a("IfcRoot"), for a resolvable value
Follows(st, v) == v.k = "ref" /\ Present(st, v.id) /\ ~IsRoot(st, v.id)

\* a reference to an id the store does not hold
Dangles(st, v) == v.k = "ref" /\ ~Present(st, v.id)

\* a call frame: the entity, the attributes not yet examined, the items of
\* the list attribute being examined
Frame(st, i) == [id |-> i, todo |-> DOMAIN st.attrs[i], items |-> <<>>]

\* the entity is entered whether or not it was visited before
EnterAlways(st, visited, stk, i) ==
  [visited |-> visited \cup {i}, stack |-> Append(stk, Frame(st, i))]

\* lines 62-69: collect_dependencies(entity, visited, ifc_file) is entered
Enter(st, visited, stk, i) ==
  IF i \in visited
  THEN [visited |-> visited, stack |-> stk]
  ELSE [visited |-> visited \cup {i}, stack |-> Append(stk, Frame(st, i))]

Top == stack[Len(stack)]
WithTop(f) == [stack EXCEPT ![Len(stack)] = f]
Pop == SubSeq(stack, 1, Len(stack) - 1)

ClosureFrame ==
  UNCHANGED << store, output_dir_arg, created, maps, project, site, building,
               storeys, idx, entities_to_copy, new_file, copy_queue, files, parts,
               message, exit_code >>

\* lines 216-218: the loop over entities_to_copy reaches a seed
StartSeed ==
  /\ pc = "closure"
  /\ stack = <<>>
  /\ \E s \in seeds :
       LET r == Enter(store, non_root_deps, <<>>, s)
       IN /\ seeds' = seeds \ {s}
          /\ non_root_deps' = r.visited
          /\ stack' = r.stack
  /\ pc' = pc
  /\ ClosureFrame

\* the value is examined: followed when it is a non-root reference
Examine(v, f) ==
  LET r == IF Follows(store, v)
           THEN Enter(store, non_root_deps, WithTop(f), v.id)
           ELSE [visited |-> non_root_deps, stack |-> WithTop(f)]
  IN /\ non_root_deps' = r.visited
     /\ stack' = r.stack

\* lines 74-79: one attribute value of the entity on top
ExamineAttr ==
  /\ pc = "closure"
  /\ stack # <<>>
  /\ Top.items = <<>>
  /\ \E a \in Top.todo :
       LET v == store.attrs[Top.id][a]
       IN /\ ~(store.raises /\ Dangles(store, v))
          /\ Examine(v, [Top EXCEPT !.todo = @ \ {a},
                                    !.items = IF v.k = "list" THEN v.items ELSE <<>>])
  /\ UNCHANGED << pc, seeds >>
  /\ ClosureFrame

\* lines 80-82: one item of a list attribute
ExamineItem ==
  /\ pc = "closure"
  /\ stack # <<>>
  /\ Top.items # <<>>
  /\ ~(store.raises /\ Dangles(store, Head(Top.items)))
  /\ Examine(Head(Top.items), [Top EXCEPT !.items = Tail(@)])
  /\ UNCHANGED << pc, seeds >>
  /\ ClosureFrame

\* the value about to be examined cannot be resolved
NextDangles ==
  \/ Top.items # <<>> /\ Dangles(store, Head(Top.items))
  \/ Top.items = <<>> /\ \E a \in Top.todo : Dangles(store, store.attrs[Top.id][a])

\* lines 83-84: examining a value raises; the entity's loop is left
ExamineRaises ==
  /\ pc = "closure"
  /\ stack # <<>>
  /\ store.raises
  /\ NextDangles
  /\ stack' = Pop
  /\ UNCHANGED << pc, seeds, non_root_deps >>
  /\ ClosureFrame

\* the loop over info.values() ends
Return ==
  /\ pc = "closure"
  /\ stack # <<>>
  /\ Top.items = <<>>
  /\ Top.todo = {}
  /\ stack' = Pop
  /\ UNCHANGED << pc, seeds, non_root_deps >>
  /\ ClosureFrame

\* ---------------------------------------------------------- materializing
\* the two sets one after the other, each in ascending order
AllEntityIdsConcatenated(roots, deps) == SortedSeq(roots) \o SortedSeq(deps)

\* lines 229-232: sorted(entities_to_copy | non_root_deps)
AllEntityIds(roots, deps) == SortedSeq(roots \cup deps)

CollectDone ==
  /\ pc = "closure"
  /\ stack = <<>>
  /\ seeds = {}
  /\ copy_queue' = AllEntityIds(entities_to_copy, non_root_deps)
  /\ new_file' = <<>>
  /\ pc' = "copy"
  /\ UNCHANGED << store, output_dir_arg, created, maps, project, site, building,
                  storeys, idx, entities_to_copy, seeds, non_root_deps, stack,
                  files, parts, message, exit_code >>

CopyFrame ==
  UNCHANGED << store, output_dir_arg, created, maps, project, site, building,
               storeys, idx, entities_to_copy, seeds, non_root_deps, stack,
               files, parts, message, exit_code, pc >>

\* lines 233-235
CopyEntity ==
  /\ pc = "copy"
  /\ copy_queue # <<>>
  /\ new_file' = Append(new_file, Head(copy_queue))
  /\ copy_queue' = Tail(copy_queue)
  /\ CopyFrame

\* lines 236-238: new_file.add raises on an entity with an unresolved
\* reference; the entity is skipped
CopyEntityFails ==
  /\ pc = "copy"
  /\ copy_queue # <<>>
  /\ HoldsDangling(store, store.attrs[Head(copy_queue)])
  /\ new_file' = new_file
  /\ copy_queue' = Tail(copy_queue)
  /\ CopyFrame

\* line 243 onwards: the artifact is written
WriteFile ==
  /\ pc = "copy"
  /\ copy_queue = <<>>
  /\ files' = Put(files, output_path(store, idx),
                  [container |-> Storey, ids |-> Range(new_file), complete |-> TRUE])
  /\ parts' = Append(parts, Part("ok", entities_to_copy, non_root_deps, Range(new_file)))
  /\ NextStorey
  /\ UNCHANGED << store, output_dir_arg, created, maps, project, site, building,
                  storeys, message, exit_code >>

\* the write error leaves the loop and ends the run
WriteFailsPropagates ==
  /\ pc = "copy"
  /\ copy_queue = <<>>
  /\ parts' = Append(parts, Part("failed", entities_to_copy, non_root_deps, {}))
  /\ Exit(1, "Traceback")
  /\ UNCHANGED << store, output_dir_arg, created, maps, project, site, building,
                  storeys, idx, entities_to_copy, seeds, non_root_deps, stack,
                  new_file, copy_queue, files >>

\* line 243 raises: nothing was written yet, or a truncated artifact is left
WriteFails ==
  /\ pc = "copy"
  /\ copy_queue = <<>>
  /\ \/ files' = files
     \/ files' = Put(files, output_path(store, idx),
                     [container |-> Storey, ids |-> {}, complete |-> FALSE])
  /\ parts' = Append(parts, Part("failed", entities_to_copy, non_root_deps, {}))
  /\ NextStorey
  /\ UNCHANGED << store, output_dir_arg, created, maps, project, site, building,
                  storeys, message, exit_code >>

\* line 272: return True; line 293: sys.exit(0 if success else 1)
Finish ==
  /\ pc = "storey"
  /\ idx = Len(storeys)
  /\ Exit(0, "Complete")
  /\ UNCHANGED << store, output_dir_arg, created, maps, project, site, building,
                  storeys, idx, entities_to_copy, seeds, non_root_deps, stack,
                  new_file, copy_queue, files, parts >>

Next ==
  \/ FileNotFound
  \/ MakeOutputDir
  \/ OpenFails
  \/ BuildMaps
  \/ BuildMapsRaises
  \/ NoStoreys
  \/ ResolveHierarchy
  \/ ResolveHierarchyRaises
  \/ PlanPartition
  \/ PlanPartitionRaises
  \/ StartSeed
  \/ ExamineAttr
  \/ ExamineItem
  \/ ExamineRaises
  \/ Return
  \/ CollectDone
  \/ CopyEntity
  \/ CopyEntityFails
  \/ WriteFile
  \/ WriteFails
  \/ Finish

Spec == Init /\ [][Next]_vars

\* ================================================================= claims
\* the partitions whose explicit roots were planned (the plan did not raise)
Planned == {k \in DOMAIN parts : parts[k].explicitRoots # {}}

\* the partitions completed and written
Written == {k \in DOMAIN parts : parts[k].status = "ok"}

\* the output entity set of a partition: explicitRoots \cup closure
OutputSet(k) == parts[k].explicitRoots \cup parts[k].closure

\* the member elements of a processed container
MembersOf(k) == Members(maps, parts[k].container)

\* the ancestor chain the run resolved
AncestorChain == {project, site, building} \ {0}

\* the index entries of element e are among the roots
Complete(e, roots) ==
  /\ e \in DOMAIN maps.element_to_type => maps.element_to_type[e] \in roots
  /\ e \in DOMAIN maps.element_to_materials =>
       Range(maps.element_to_materials[e]) \subseteq roots
  /\ e \in DOMAIN maps.element_to_psets =>
       Range(maps.element_to_psets[e]) \subseteq roots

\* C1 (Completeness): for every partitioned container and every member
\* element e of it, the partition's explicit roots hold typeOf[e] (when e
\* has one), every material in materialsOf[e] and every property set in
\* propertySetsOf[e]; this holds of the partition being built as well as
\* of the finished ones.
C1_Completeness ==
  /\ \A k \in Planned : \A e \in MembersOf(k) : Complete(e, parts[k].explicitRoots)
  /\ pc \in {"closure", "copy"} =>
       \A e \in Members(maps, Storey) : Complete(e, entities_to_copy)

\* a written partition with a member that has a type, a material and a
\* property set
C1_Witness ==
  \E k \in Written : \E e \in MembersOf(k) :
    /\ e \in DOMAIN maps.element_to_type
    /\ e \in DOMAIN maps.element_to_materials
    /\ e \in DOMAIN maps.element_to_psets
    /\ maps.element_to_materials[e] # <<>>

\* C2 (closure = V \ S): in every partition the closure set the engine
\* hands back holds no explicit root, so that closure and explicitRoots are
\* disjoint and the two counts add up to the number of entities visited.
C2_ClosureExcludesSeeds ==
  \A k \in Planned :
    /\ parts[k].closure \cap parts[k].explicitRoots = {}
    /\ Cardinality(parts[k].closure) + Cardinality(parts[k].explicitRoots)
         = Cardinality(OutputSet(k))

\* C3 (Root boundary): while the closure is computed, every root-typed id
\* in the visited set is one of the partition's explicit roots, and a
\* root-typed entity is entered only as a seed (its call is the outermost
\* one), never by following a reference; the same holds of the closure of
\* every finished partition.
C3_RootBoundary ==
  /\ \A i \in non_root_deps : IsRoot(store, i) => i \in entities_to_copy
  /\ \A n \in DOMAIN stack : IsRoot(store, stack[n].id) => n = 1
  /\ \A k \in Planned : \A i \in parts[k].closure :
       IsRoot(store, i) => i \in parts[k].explicitRoots

RECURSIVE RefsIn(_)
\* the ids referred to by the values, lists flattened to any depth
RefsIn(vals) ==
  UNION { IF vals[n].k = "ref" THEN {vals[n].id}
          ELSE IF vals[n].k = "list" THEN RefsIn(vals[n].items)
          ELSE {} : n \in DOMAIN vals }

\* the ids referred to directly or as an item of a list attribute
ExaminedRefs(vals) ==
  UNION { IF vals[n].k = "ref" THEN {vals[n].id}
          ELSE IF vals[n].k = "list"
          THEN {vals[n].items[m].id :
                  m \in {m \in DOMAIN vals[n].items : vals[n].items[m].k = "ref"}}
          ELSE {} : n \in DOMAIN vals }

\* a written partition one of whose entities refers to a root-typed entity
\* that is no explicit root: the reference was passed over
C3_Witness ==
  \E k \in Written : \E x \in OutputSet(k) :
    \E r \in ExaminedRefs(store.attrs[x]) :
      /\ Present(store, r) /\ IsRoot(store, r)
      /\ r \notin OutputSet(k)

\* C4 (Self-containment): in every written partition every reference held
\* by an entity of explicitRoots \cup closure, directly or inside a list
\* attribute, to a non-root entity of the store resolves inside
\* explicitRoots \cup closure.
C4_SelfContained ==
  \A k \in Written : \A x \in OutputSet(k) :
    \A r \in RefsIn(store.attrs[x]) :
      (Present(store, r) /\ ~IsRoot(store, r)) => r \in OutputSet(k)

\* two written partitions of different storeys with disjoint member sets
DisjointPairs ==
  { <<i, j>> \in Written \X Written :
      i # j /\ MembersOf(i) \cap MembersOf(j) = {} }

\* C5 as stated (No cross-contamination): the output sets of two containers
\* with disjoint member sets intersect only in the shared ancestor chain.
C5_OnlyAncestorsShared ==
  \A p \in DisjointPairs :
    OutputSet(p[1]) \cap OutputSet(p[2]) \subseteq AncestorChain

\* C5 as amended: an entity in the output sets of two containers with
\* disjoint member sets is an explicit root of both partitions (the
\* ancestor chain, or a type, material or property set planned for members
\* of both) or a non-root entity reached from both; a root-typed entity
\* that is an explicit root of one container only is never in the other's
\* output set.
C5_SharedRootsOrNonRoot ==
  \A p \in DisjointPairs :
    \A x \in OutputSet(p[1]) \cap OutputSet(p[2]) :
      \/ x \in parts[p[1]].explicitRoots \cap parts[p[2]].explicitRoots
      \/ ~IsRoot(store, x)

\* two written partitions with disjoint, non-empty member sets that share
\* an entity outside the ancestor chain, while an entity of the first
\* refers to a member of the second
C5_Witness ==
  \E p \in DisjointPairs :
    /\ MembersOf(p[1]) # {} /\ MembersOf(p[2]) # {}
    /\ ~(OutputSet(p[1]) \cap OutputSet(p[2]) \subseteq AncestorChain)
    /\ \E x \in OutputSet(p[1]) :
         ExaminedRefs(store.attrs[x]) \cap MembersOf(p[2]) # {}

\* C6 (Scenario A generalised): in a run whose writes all succeed, for
\* containers S1, S2 with disjoint member sets and a material M associated
\* with a member of each: every container has its own artifact, M is in
\* both output sets, and a member of S1 is in S2's output set only if it is
\* a type, material or property set of a member of S2.
C6_ScenarioA ==
  (pc = "exit" /\ message = "Complete" /\ Written = DOMAIN parts) =>
    \A p \in DisjointPairs :
      \A m \in MaterialRoots(maps, MembersOf(p[1]))
               \cap MaterialRoots(maps, MembersOf(p[2])) :
        /\ \A k \in DOMAIN parts :
             /\ parts[k].path \in DOMAIN files
             /\ files[parts[k].path].container = parts[k].container
        /\ m \in OutputSet(p[1]) \cap OutputSet(p[2])
        /\ \A e \in MembersOf(p[1]) \cap OutputSet(p[2]) :
             e \in TypeRoots(maps, MembersOf(p[2]))
                   \cup MaterialRoots(maps, MembersOf(p[2]))
                   \cup PsetRoots(maps, MembersOf(p[2]))

\* collect_dependencies with the attributes taken in store order and the
\* seeds in ascending order: the visited set one fixed order yields
RECURSIVE CollectEntity(_, _, _)
RECURSIVE CollectValues(_, _, _, _)
RECURSIVE CollectItems(_, _, _, _)
CollectEntity(st, V, i) ==
  IF i \in V THEN V ELSE CollectValues(st, V \cup {i}, st.attrs[i], 1).visited

CollectItems(st, V, items, n) ==
  IF n > Len(items) THEN [visited |-> V, raised |-> FALSE]
  ELSE IF st.raises /\ Dangles(st, items[n]) THEN [visited |-> V, raised |-> TRUE]
  ELSE IF Follows(st, items[n])
  THEN CollectItems(st, CollectEntity(st, V, items[n].id), items, n + 1)
  ELSE CollectItems(st, V, items, n + 1)

CollectValues(st, V, vals, n) ==
  IF n > Len(vals) THEN [visited |-> V, raised |-> FALSE]
  ELSE IF st.raises /\ Dangles(st, vals[n]) THEN [visited |-> V, raised |-> TRUE]
  ELSE IF Follows(st, vals[n])
  THEN CollectValues(st, CollectEntity(st, V, vals[n].id), vals, n + 1)
  ELSE IF vals[n].k = "list"
  THEN LET r == CollectItems(st, V, vals[n].items, 1)
       IN IF r.raised THEN r ELSE CollectValues(st, r.visited, vals, n + 1)
  ELSE CollectValues(st, V, vals, n + 1)

RECURSIVE CollectSeeds(_, _, _)
CollectSeeds(st, V, seedSeq) ==
  IF seedSeq = <<>> THEN V
  ELSE CollectSeeds(st, CollectEntity(st, V, Head(seedSeq)), Tail(seedSeq))

\* C7 (Determinism): whatever the order in which the seeds were started
\* and the attributes of each entity examined, the closure of a partition
\* is the set the store-order traversal yields, also for a store in which
\* examining an attribute raises.
C7_OrderIndependent ==
  \A k \in Planned :
    parts[k].closure = CollectSeeds(store, {}, SortedSeq(parts[k].explicitRoots))

\* some examined value of the entity cannot be resolved
HoldsExaminedDangling(x) ==
  \E r \in ExaminedRefs(store.attrs[x]) : ~Present(store, r)

\* C8 (Dangling references are skipped): in every written partition an
\* entity that was visited and holds an unresolvable reference still had
\* each of its other, valid references to non-root entities visited.
C8_OnlyDanglingSkipped ==
  \A k \in Written : \A x \in parts[k].closure :
    HoldsExaminedDangling(x) =>
      \A r \in ExaminedRefs(store.attrs[x]) :
        (Present(store, r) /\ ~IsRoot(store, r)) => r \in parts[k].closure

\* C9 (Zero containers): a run on a store without storeys ends with status
\* 1, has written no artifact and has created nothing in the output
\* location.
C9_ZeroContainers ==
  (pc = "exit" /\ message = "No building storeys found") =>
    /\ exit_code = 1
    /\ files = EmptyDict
    /\ ~created

\* C10 (Exit status): the run exits 0 exactly if at least one partition was
\* completed and written.
C10_ExitStatus ==
  pc = "exit" => (exit_code = 0 <=> Written # {})

\* C11 (Materialization order): the entities handed to the output store
\* are members of explicitRoots \cup closure, and at every step the id
\* inserted is greater than every id inserted before it, so that the ids
\* are strictly ascending and none is inserted twice.
C11_AscendingInsertion ==
  /\ Range(new_file) \subseteq entities_to_copy \cup non_root_deps
  /\ \A i, j \in DOMAIN new_file : i < j => new_file[i] < new_file[j]
  /\ (pc = "copy" /\ copy_queue # <<>> /\ new_file # <<>>) =>
       new_file[Len(new_file)] < Head(copy_queue)

\* a partition with roots and closure-only entities is about to be written
C11_Witness ==
  /\ pc = "copy"
  /\ copy_queue = <<>>
  /\ Len(new_file) >= 4
  /\ Range(new_file) \cap entities_to_copy # {}
  /\ Range(new_file) \ entities_to_copy # {}

\* C12 (Failure isolation): a failure while planning, closing,
\* materializing or writing one container never ends the run: the
\* containers are attempted one after the other in store order, each exactly
\* once, and a run that began the loop ends normally with every container
\* attempted, whatever failed on the way.
C12_FailureIsolation ==
  /\ \A k \in DOMAIN parts : parts[k].container = storeys[k]
  /\ pc \in {"storey", "closure", "copy"} => Len(parts) = idx
  /\ (pc = "exit" /\ storeys # <<>>) =>
       /\ message = "Complete"
       /\ Len(parts) = Len(storeys)

\* the run ended after a failed partition was followed by a written one
C12_Witness ==
  /\ pc = "exit"
  /\ \E k \in DOMAIN parts :
       /\ parts[k].status = "failed"
       /\ k + 1 \in Written

\* the partitions whose write failed: planned and materialized, not written
WriteFailed == {k \in Planned : parts[k].status = "failed"}

\* C13 (Partial artifacts): at the end of the run no artifact file is
\* present at the path of a partition whose write failed: whatever the
\* failed write left behind was removed.
C13_NoPartialArtifact ==
  pc = "exit" =>
    \A k \in WriteFailed :
      parts[k].path \in DOMAIN files =>
        /\ files[parts[k].path].container # parts[k].container
        /\ files[parts[k].path].complete

\* C14 (One output per container): containers are given different
\* artifact paths, whatever their labels, so that no partition overwrites
\* the artifact of another and a run in which every partition was written
\* leaves one artifact per container, each holding its own container.
C14_OneOutputPerContainer ==
  /\ \A i, j \in DOMAIN parts : i # j => parts[i].path # parts[j].path
  /\ \A k \in Written :
       /\ parts[k].path \in DOMAIN files
       /\ files[parts[k].path].container = parts[k].container
  /\ Written = DOMAIN parts => Cardinality(DOMAIN files) = Len(parts)

\* the entities of kind `kind` that an aggregation relation of the store
\* gives `child` as a part
AggregatorsOf(st, child, kind) ==
  { st.relAgg[i].relating : i \in
      { i \in DOMAIN st.relAgg :
          /\ st.relAgg[i].hasRelated
          /\ child \in Range(st.relAgg[i].related)
          /\ Present(st, st.relAgg[i].relating)
          /\ st.kind[st.relAgg[i].relating] = kind } }

\* C15 (Ancestor chain): the explicit roots of every partition include the
\* building that aggregates its container, the site that aggregates that
\* building and the project, also in stores with several sites or several
\* buildings.
C15_AncestorChainInRoots ==
  \A k \in Planned :
    \A b \in AggregatorsOf(store, parts[k].container, "IfcBuilding") :
      /\ b \in parts[k].explicitRoots
      /\ \A s \in AggregatorsOf(store, b, "IfcSite") :
           /\ s \in parts[k].explicitRoots
           /\ \A p \in AggregatorsOf(store, s, "IfcProject") :
                p \in parts[k].explicitRoots

\* C16 (Read-only index): the index is built once, before the first
\* container is processed; from then on no step changes the four maps, and
\* no step ever changes the store: processing a container, also one without
\* an index entry or with members without type, material or property set
\* entry, adds no key.
C16_IndexReadOnly ==
  [][ /\ store' = store
      /\ pc # "open" => maps' = maps
      /\ pc' \in {"core", "storey", "closure", "copy"} =>
           maps' = build_relationship_maps(store) ]_vars

\* a container without an index entry, and one whose member has no
\* property set entry, were processed and written
C16_Witness ==
  /\ \E k \in Written : parts[k].container \notin DOMAIN maps.storey_to_elements
  /\ \E k \in Written : \E e \in MembersOf(k) :
       e \notin DOMAIN maps.element_to_psets

RECURSIVE ReachableFrom(_, _)
\* the entities of S and every entity a chain of followed references leads
\* to from them
ReachableFrom(st, S) ==
  LET next == S \cup { r \in UNION {ExaminedRefs(st.attrs[x]) : x \in S} :
                         Present(st, r) /\ ~IsRoot(st, r) }
  IN IF next = S THEN S ELSE ReachableFrom(st, next)

\* C17 (Independent partitions): what is computed for a container depends
\* on the index, the store and the container alone, whatever was processed,
\* written or failed before it. The explicit roots are the planner's
\* function of the container; the closure holds nothing but entities
\* reached from these roots and, where no examination raises, is exactly
\* the set of entities reached from them; the artifact holds entities of
\* this partition's output set only.
C17_IndependentPartitions ==
  /\ \A k \in Planned :
       /\ parts[k].explicitRoots =
            ExplicitRoots(build_relationship_maps(store), ProjectOf(store),
                          SiteOf(store, ProjectOf(store)),
                          BuildingOf(store, SiteOf(store, ProjectOf(store))),
                          parts[k].container)
       /\ parts[k].closure \subseteq ReachableFrom(store, parts[k].explicitRoots)
       /\ ~store.raises =>
            parts[k].closure = ReachableFrom(store, parts[k].explicitRoots)
  /\ \A k \in Written : parts[k].written \subseteq OutputSet(k)

\* a partition was written after another one, which visited entities the
\* later one has no part in, had been written or had failed
C17_Witness ==
  \E k \in Written :
    /\ k > 1
    /\ ~(parts[k - 1].closure \subseteq parts[k].closure)
    /\ parts[k].closure \ parts[k].explicitRoots # {}

\* the ids referred to inside the list attributes among the values, at
\* any depth of nesting
ListRefs(vals) ==
  UNION { RefsIn(vals[n].items) : n \in {n \in DOMAIN vals : vals[n].k = "list"} }

\* C18 (Nested lists): the traversal flattens list attributes to any
\* depth: in every written partition each non-root entity of the store
\* that a visited entity (one without unresolvable references) refers to
\* anywhere inside a list attribute is in the closure.
C18_NestedListsFlattened ==
  \A k \in Written : \A x \in parts[k].closure :
    ~HoldsDangling(store, store.attrs[x]) =>
      \A r \in ListRefs(store.attrs[x]) :
        (Present(store, r) /\ ~IsRoot(store, r)) => r \in parts[k].closure

\* the steps examining one value takes at most: one for the value, one for
\* each item of a list
ValueWork(v) == 1 + (IF v.k = "list" THEN Len(v.items) ELSE 0)

RECURSIVE TodoWork(_, _, _)
\* the steps the attributes `todo` of entity i take at most
TodoWork(st, i, todo) ==
  IF todo = {} THEN 0
  ELSE LET n == CHOOSE n \in todo : TRUE
       IN ValueWork(st.attrs[i][n]) + TodoWork(st, i, todo \ {n})

RECURSIVE StackWork(_, _)
\* the steps the calls on the stack have left before they return
StackWork(st, stk) ==
  IF stk = <<>> THEN 0
  ELSE 1 + TodoWork(st, Head(stk).id, Head(stk).todo) + Len(Head(stk).items)
         + StackWork(st, Tail(stk))

\* the entities of the store not visited yet
Unvisited == Cardinality(DOMAIN store.kind \ non_root_deps)

\* the seeds not started and the steps the calls in progress have left
CallsWork == Cardinality(seeds) + StackWork(store, stack)

\* C19 (Cycle safety and termination): in every store, cyclic or
\* self-referential ones included, the closure computation of a partition
\* ends and enters no entity twice: every step of it either visits a new
\* entity or lowers the number of steps the calls in progress and the
\* seeds have left, an entity is entered (a call expanding its attributes
\* begins) only if it was not visited before and is visited from then on,
\* the visited set never shrinks, and the computation is never stuck.
C19_ClosureTerminates ==
  /\ [](pc = "closure" => ENABLED Next)
  /\ [][ pc = "closure" =>
           /\ pc' = "closure" =>
                /\ \/ Unvisited' < Unvisited
                   \/ Unvisited' = Unvisited /\ CallsWork' < CallsWork
                /\ non_root_deps \subseteq non_root_deps'
           /\ Len(stack') > Len(stack) =>
                /\ stack'[Len(stack')].id \notin non_root_deps
                /\ stack'[Len(stack')].id \in non_root_deps' ]_vars

\* the closure computation meets an entity it has visited before (a cycle,
\* a self-reference or a shared item) and goes on without entering it
C19_Witness ==
  /\ pc = "closure"
  /\ stack # <<>>
  /\ Top.items = <<>>
  /\ \E a \in Top.todo :
       /\ Follows(store, store.attrs[Top.id][a])
       /\ store.attrs[Top.id][a].id \in {stack[n].id : n \in DOMAIN stack}

RECURSIVE FirstMatch(_, _, _, _)
\* the first child of kind `kind` of the first relation, in store order,
\* that relates `parent` to such a child; 0 if there is none
FirstMatch(st, rels, parent, kind) ==
  IF rels = <<>> THEN 0
  ELSE LET r == Head(rels)
           hit == IF r.relating = parent THEN FirstOfKind(st, r.related, kind) ELSE 0
       IN IF hit # 0 THEN hit ELSE FirstMatch(st, Tail(rels), parent, kind)

\* C20 (First match): the site the run resolved is the site child of the
\* first aggregation relation of the project, in store order, that has
\* one, and the building is the building child of the first such relation
\* of that site: a later matching relation replaces neither.
C20_FirstMatch ==
  (pc \in {"storey", "closure", "copy"} /\ project # 0) =>
    /\ site = FirstMatch(store, store.relAgg, project, "IfcSite")
    /\ site # 0 => building = FirstMatch(store, store.relAgg, site, "IfcBuilding")

\* the relationship records none of whose fields is absent
CompleteRels(rels) ==
  SelectSeq(rels, LAMBDA r : r.relating # 0 /\ r.hasRelated)

\* the store without its relationship records that have an absent field
WithoutIncomplete(st) ==
  [st EXCEPT !.relType = CompleteRels(@), !.relMat = CompleteRels(@),
             !.relPset = CompleteRels(@), !.relContained = CompleteRels(@),
             !.relAgg = CompleteRels(@)]

\* C21 (Missing optional fields): a relationship record with an absent
\* related-objects list, relating type, material, property definition or
\* structure neither ends the run during index construction nor leaves a
\* map entry: once the store is open the run gets past index construction
\* and the index is the one built from the other records alone.
C21_MissingFieldsSkipped ==
  (pc \notin {"start", "open"}
     /\ ~(pc = "exit" /\ message \in {"File not found", "Error opening IFC file"})) =>
    maps = build_relationship_maps(WithoutIncomplete(store))

====
